---- MODULE Spec2Model ----
(***************************************************************************)
(* Model of Server3-Maps.py, the job map renderer.                         *)
(*                                                                         *)
(* Text is a sequence of character code points, so that str(), chr(),      *)
(* strip(), replace() and the f-strings are computed, not assumed.  A JSON *)
(* value is a record [kind, s, n, d]: kind is "absent" (key not in the     *)
(* dict), "null", "bool", "int", "float" or "str"; s is the text of a str, *)
(* n the integer (or the whole part of a float, or 0/1 of a bool), d the   *)
(* single fractional digit of a float.                                     *)
(***************************************************************************)
EXTENDS Integers, Sequences, FiniteSets, TLC

VARIABLES GOOGLE_MAPS_API_KEY, pc, called, index, location, jobs, ret, raised,
          markers_parts, valid_jobs, by_coordinates, by_location, skipped,
          url_built

vars == <<GOOGLE_MAPS_API_KEY, pc, called, index, location, jobs, ret, raised,
          markers_parts, valid_jobs, by_coordinates, by_location, skipped,
          url_built>>

-----------------------------------------------------------------------------
(* Bounds *)

\* longest job list built from the full set of job records
MaxJobs == 3
\* longest job list built from the two plain job records (reaches labels >= 10)
MaxLongJobs == 11
\* largest ordinal handed to _marker_label on its own
MaxOrdinal == 60
\* longest text handed to _encode_location on its own
MaxLen == 4

-----------------------------------------------------------------------------
(* JSON values and text *)

Absent == [kind |-> "absent", s |-> <<>>, n |-> 0, d |-> 0]
Null == [kind |-> "null", s |-> <<>>, n |-> 0, d |-> 0]
Str(t) == [kind |-> "str", s |-> t, n |-> 0, d |-> 0]
IntV(k) == [kind |-> "int", s |-> <<>>, n |-> k, d |-> 0]
FloatV(w, f) == [kind |-> "float", s |-> <<>>, n |-> w, d |-> f]
BoolV(b) == [kind |-> "bool", s |-> <<>>, n |-> IF b THEN 1 ELSE 0, d |-> 0]

\* dict.get(field, default): the default only when the key is missing
Get(job, field, default) ==
    IF job[field].kind = "absent" THEN default ELSE job[field]

\* str.isspace() over the ASCII range: \t \n \v \f \r, FS GS RS US, space
Whitespace == {9, 10, 11, 12, 13, 28, 29, 30, 31, 32}

RECURSIVE LStrip(_)
LStrip(t) ==
    IF t # <<>> /\ Head(t) \in Whitespace THEN LStrip(Tail(t)) ELSE t

RECURSIVE RStrip(_)
RStrip(t) ==
    IF t # <<>> /\ t[Len(t)] \in Whitespace
    THEN RStrip(SubSeq(t, 1, Len(t) - 1))
    ELSE t

\* str.strip()
Strip(t) == RStrip(LStrip(t))

\* str.replace(old, new) for a one-character old
RECURSIVE Replace(_, _, _)
Replace(t, old, new) ==
    IF t = <<>> THEN <<>>
    ELSE (IF Head(t) = old THEN new ELSE <<Head(t)>>) \o Replace(Tail(t), old, new)

\* str(k) of a non-negative integer
RECURSIVE NatToStr(_)
NatToStr(k) ==
    IF k < 10 THEN <<48 + k>> ELSE NatToStr(k \div 10) \o <<48 + (k % 10)>>

\* str(k) of an integer
IntToStr(k) == IF k < 0 THEN <<45>> \o NatToStr(0 - k) ELSE NatToStr(k)

\* f"{v}": str() of a number, a bool, a str, None
Format(v) ==
    CASE v.kind = "int" -> IntToStr(v.n)
      [] v.kind = "str" -> v.s
      [] v.kind = "null" -> <<78, 111, 110, 101>>
      [] v.kind = "float" -> IntToStr(v.n) \o <<46>> \o <<48 + v.d>>
      [] v.kind = "bool" -> (IF v.n = 1 THEN <<84, 114, 117, 101>>
                                        ELSE <<70, 97, 108, 115, 101>>)

\* isinstance(v, (int, float)); bool is a subclass of int
IsIntOrFloat(v) == v.kind \in {"int", "float", "bool"}

\* "&".join(parts)
RECURSIVE Join(_)
Join(parts) ==
    IF parts = <<>> THEN <<>>
    ELSE IF Len(parts) = 1 THEN parts[1]
    ELSE parts[1] \o <<38>> \o Join(Tail(parts))

\* "markers=color:red%7Clabel:"
MarkerPrefix ==
    <<109, 97, 114, 107, 101, 114, 115, 61, 99, 111, 108, 111, 114, 58, 114,
      101, 100, 37, 55, 67, 108, 97, 98, 101, 108, 58>>
\* "%7C"
Pipe == <<37, 55, 67>>
\* "https://maps.googleapis.com/maps/api/staticmap" "?size=700x420" "&maptype=roadmap" "&"
UrlHead ==
    <<104, 116, 116, 112, 115, 58, 47, 47, 109, 97, 112, 115, 46, 103, 111,
      111, 103, 108, 101, 97, 112, 105, 115, 46, 99, 111, 109, 47, 109, 97,
      112, 115, 47, 97, 112, 105, 47, 115, 116, 97, 116, 105, 99, 109, 97,
      112>>
    \o <<63, 115, 105, 122, 101, 61, 55, 48, 48, 120, 52, 50, 48>>
    \o <<38, 109, 97, 112, 116, 121, 112, 101, 61, 114, 111, 97, 100, 109,
         97, 112>>
    \o <<38>>
\* "&key="
KeyParam == <<38, 107, 101, 121, 61>>
\* "N/A"
NA == Str(<<78, 47, 65>>)
\* ""
Empty == Str(<<>>)

-----------------------------------------------------------------------------
(* Helpers *)

\* def _marker_label(index)
_marker_label(i) == IF i <= 9 THEN NatToStr(i) ELSE <<64 + i>>

\* _encode_location without the strip()
_encode_location_nostrip(loc) ==
    Replace(Replace(loc, 32, <<43>>), 44, <<37, 50, 67>>)

\* def _encode_location(location)
_encode_location(loc) ==
    Replace(Replace(Strip(loc), 32, <<43>>), 44, <<37, 50, 67>>)

\* the loop of _build_map_url: one marker part per job with a location,
\* labelled by the job's 1-based position in the list it is given
RECURSIVE BuildParts(_, _)
BuildParts(js, i) ==
    IF i > Len(js) THEN [raised |-> "", parts |-> <<>>]
    ELSE LET loc == Get(js[i], "location", Empty) IN
         IF loc.kind # "str" THEN [raised |-> "AttributeError", parts |-> <<>>]
         ELSE LET rest == BuildParts(js, i + 1)
                  stripped == Strip(loc.s)
                  part == MarkerPrefix \o _marker_label(i) \o Pipe
                          \o _encode_location(stripped)
              IN IF stripped = <<>> THEN rest
                 ELSE [raised |-> rest.raised,
                       parts |-> IF rest.raised # "" THEN <<>>
                                 ELSE <<part>> \o rest.parts]

\* the f-string assembling the URL around the joined marker parts
AssembleUrl(parts, key) ==
    UrlHead \o Join(parts) \o KeyParam \o Format(key)

\* def _build_map_url(jobs)
_build_map_url(js, key) == AssembleUrl(BuildParts(js, 1).parts, key)

\* the structured_jobs comprehension of both tools
structured_jobs(vjs) ==
    [i \in 1..Len(vjs) |->
        [number |-> _marker_label(i),
         title |-> Get(vjs[i], "title", NA),
         company |-> Get(vjs[i], "company", NA),
         location |-> Get(vjs[i], "location", NA),
         url |-> Get(vjs[i], "url", Empty)]]

\* the key test taken as "is None": an empty key passes as configured
KeyMissing_nullonly(key) == key.kind = "null"

\* "if not GOOGLE_MAPS_API_KEY": unset, or set to the empty string
KeyMissing(key) == key.kind = "null" \/ (key.kind = "str" /\ key.s = <<>>)

ConfigError ==
    [status |-> "error",
     error |-> "GOOGLE_MAPS_API_KEY not configured on the server."]

NoJobsError == [status |-> "error", error |-> "No jobs provided."]

\* the valid_jobs comprehension of render_jobs_map: j.get("location", "").strip()
\* is evaluated for every job, in order
RECURSIVE FilterLocated(_)
FilterLocated(js) ==
    IF js = <<>> THEN [raised |-> "", kept |-> <<>>]
    ELSE LET loc == Get(Head(js), "location", Empty) IN
         IF loc.kind # "str" THEN [raised |-> "AttributeError", kept |-> <<>>]
         ELSE LET rest == FilterLocated(Tail(js)) IN
              IF rest.raised # "" THEN rest
              ELSE [raised |-> "",
                    kept |-> IF Strip(loc.s) # <<>>
                             THEN <<Head(js)>> \o rest.kept
                             ELSE rest.kept]

\* the iteration with the city fallback left out of the by_location count
PlaceJob_nocount(st, job, i) ==
    LET label == _marker_label(i)
        lat == Get(job, "latitude", Null)
        lng == Get(job, "longitude", Null)
        loc == Get(job, "location", Empty)
    IN IF loc.kind # "str" THEN [st EXCEPT !.raised = "AttributeError"]
       ELSE IF IsIntOrFloat(lat) /\ IsIntOrFloat(lng)
       THEN [st EXCEPT
               !.markers_parts = Append(@, MarkerPrefix \o label \o Pipe
                                            \o Format(lat) \o <<44>> \o Format(lng)),
               !.by_coordinates = @ + 1,
               !.valid_jobs = Append(@, job)]
       ELSE IF Strip(loc.s) # <<>>
       THEN [st EXCEPT
               !.markers_parts = Append(@, MarkerPrefix \o label \o Pipe
                                            \o _encode_location(Strip(loc.s))),
               !.valid_jobs = Append(@, job)]
       ELSE [st EXCEPT !.skipped = @ + 1]

\* the iteration labelling a marker from the by_location counter
PlaceJob_wrongcounter(st, job, i) ==
    LET label == _marker_label(st.by_location + 1)
        lat == Get(job, "latitude", Null)
        lng == Get(job, "longitude", Null)
        loc == Get(job, "location", Empty)
    IN IF loc.kind # "str" THEN [st EXCEPT !.raised = "AttributeError"]
       ELSE IF IsIntOrFloat(lat) /\ IsIntOrFloat(lng)
       THEN [st EXCEPT
               !.markers_parts = Append(@, MarkerPrefix \o label \o Pipe
                                            \o Format(lat) \o <<44>> \o Format(lng)),
               !.by_coordinates = @ + 1,
               !.valid_jobs = Append(@, job)]
       ELSE IF Strip(loc.s) # <<>>
       THEN [st EXCEPT
               !.markers_parts = Append(@, MarkerPrefix \o label \o Pipe
                                            \o _encode_location(Strip(loc.s))),
               !.by_location = @ + 1,
               !.valid_jobs = Append(@, job)]
       ELSE [st EXCEPT !.skipped = @ + 1]

\* one iteration of the loop of render_jobs_map_by_coordinates
PlaceJob(st, job, i) ==
    LET label == _marker_label(i)
        lat == Get(job, "latitude", Null)
        lng == Get(job, "longitude", Null)
        loc == Get(job, "location", Empty)
    IN IF loc.kind # "str" THEN [st EXCEPT !.raised = "AttributeError"]
       ELSE IF IsIntOrFloat(lat) /\ IsIntOrFloat(lng)
       THEN [st EXCEPT
               !.markers_parts = Append(@, MarkerPrefix \o label \o Pipe
                                            \o Format(lat) \o <<44>> \o Format(lng)),
               !.by_coordinates = @ + 1,
               !.valid_jobs = Append(@, job)]
       ELSE IF Strip(loc.s) # <<>>
       THEN [st EXCEPT
               !.markers_parts = Append(@, MarkerPrefix \o label \o Pipe
                                            \o _encode_location(Strip(loc.s))),
               !.by_location = @ + 1,
               !.valid_jobs = Append(@, job)]
       ELSE [st EXCEPT !.skipped = @ + 1]

\* the whole loop, stopping at the first exception
RECURSIVE PlaceAll(_, _, _)
PlaceAll(st, js, i) ==
    IF i > Len(js) \/ st.raised # "" THEN st
    ELSE PlaceAll(PlaceJob(st, js[i], i), js, i + 1)

LoopStart ==
    [markers_parts |-> <<>>, valid_jobs |-> <<>>, by_coordinates |-> 0,
     by_location |-> 0, skipped |-> 0, raised |-> ""]

-----------------------------------------------------------------------------
(* Inputs *)

Alphabet == {32, 9, 44, 38, 37, 82}

Texts(len) == UNION {[1..k -> Alphabet] : k \in 0..len}

\* location: missing, null, a number, "", " ", " Rho ", "Milano, Italy"
LocationValues ==
    {Absent, Null, IntV(5), Str(<<>>), Str(<<32>>), Str(<<32, 82, 104, 111, 32>>),
     Str(<<77, 105, 108, 97, 110, 111, 44, 32, 73, 116, 97, 108, 121>>)}

\* (latitude, longitude): 41.9/12.5, -7/True, 41.9/null, "41.9"/12.5
CoordValues ==
    {<<FloatV(41, 9), FloatV(12, 5)>>,
     <<IntV(0 - 7), BoolV(TRUE)>>, <<FloatV(41, 9), Null>>,
     <<Str(<<52, 49, 46, 57>>), FloatV(12, 5)>>}

NoCoord == <<Absent, Absent>>

\* (title, company, url): "Dev"/"Acme"/"http://x"
FullDisplay ==
    <<Str(<<68, 101, 118>>), Str(<<65, 99, 109, 101>>),
      Str(<<104, 116, 116, 112, 58, 47, 47, 120>>)>>

\* (title, company, url): all missing, null/7/missing
DisplayValues == {<<Absent, Absent, Absent>>, <<Null, IntV(7), Absent>>}

Job(disp, loc, coord) ==
    [title |-> disp[1], company |-> disp[2], url |-> disp[3],
     location |-> loc, latitude |-> coord[1], longitude |-> coord[2]]

\* every location without coordinates; every coordinate pair with a missing,
\* a null and a text location; every display variant on a located job
JobValues ==
    {Job(FullDisplay, l, NoCoord) : l \in LocationValues}
    \cup {Job(FullDisplay, l, c) :
            l \in {Absent, Null,
                   Str(<<77, 105, 108, 97, 110, 111, 44, 32, 73, 116, 97, 108, 121>>)},
            c \in CoordValues}
    \cup {Job(d, Str(<<32, 82, 104, 111, 32>>), NoCoord) : d \in DisplayValues}

\* the two plain records of the long lists: {} and {"location": " Rho "}
PlainJobs ==
    {Job(<<Absent, Absent, Absent>>, Absent, <<Absent, Absent>>),
     Job(<<Absent, Absent, Absent>>, Str(<<32, 82, 104, 111, 32>>), <<Absent, Absent>>)}

JobLists ==
    UNION {[1..k -> JobValues] : k \in 0..MaxJobs}
    \cup UNION {[1..k -> PlainJobs] : k \in (MaxJobs + 1)..MaxLongJobs}

\* the environment variable: unset, empty, "K1"
KeyValues == {Null, Str(<<>>), Str(<<75, 49>>)}

-----------------------------------------------------------------------------

Idle ==
    /\ called = ""
    /\ ret = <<>>
    /\ raised = ""
    /\ markers_parts = <<>>
    /\ valid_jobs = <<>>
    /\ by_coordinates = 0
    /\ by_location = 0
    /\ skipped = 0
    /\ url_built = FALSE

InitLabel ==
    /\ pc = "label"
    /\ index \in 1..MaxOrdinal
    /\ location = <<>>
    /\ jobs = <<>>
    /\ GOOGLE_MAPS_API_KEY = Null

InitEncode ==
    /\ pc = "encode"
    /\ index = 0
    /\ location \in Texts(MaxLen)
    /\ jobs = <<>>
    /\ GOOGLE_MAPS_API_KEY = Null

InitTool ==
    /\ pc = "tool"
    /\ index = 0
    /\ location = <<>>
    /\ jobs \in JobLists
    /\ GOOGLE_MAPS_API_KEY \in KeyValues

Init == Idle /\ (InitLabel \/ InitEncode \/ InitTool)

CallMarkerLabel ==
    /\ pc = "label"
    /\ pc' = "done"
    /\ called' = "_marker_label"
    /\ ret' = _marker_label(index)
    /\ UNCHANGED <<GOOGLE_MAPS_API_KEY, index, location, jobs, raised,
                   markers_parts, valid_jobs, by_coordinates, by_location,
                   skipped, url_built>>

CallEncodeLocation ==
    /\ pc = "encode"
    /\ pc' = "done"
    /\ called' = "_encode_location"
    /\ ret' = _encode_location(location)
    /\ UNCHANGED <<GOOGLE_MAPS_API_KEY, index, location, jobs, raised,
                   markers_parts, valid_jobs, by_coordinates, by_location,
                   skipped, url_built>>

\* def render_jobs_map(jobs)
render_jobs_map ==
    /\ pc = "tool"
    /\ pc' = "done"
    /\ called' = "render_jobs_map"
    /\ LET f == FilterLocated(jobs)
           parts == BuildParts(f.kept, 1).parts
       IN IF KeyMissing(GOOGLE_MAPS_API_KEY)
          THEN /\ ret' = ConfigError
               /\ UNCHANGED <<raised, markers_parts, valid_jobs, url_built>>
          ELSE IF jobs = <<>>
          THEN /\ ret' = NoJobsError
               /\ UNCHANGED <<raised, markers_parts, valid_jobs, url_built>>
          ELSE IF f.raised # ""
          THEN /\ raised' = f.raised
               /\ UNCHANGED <<ret, markers_parts, valid_jobs, url_built>>
          ELSE IF f.kept = <<>>
          THEN /\ ret' = [status |-> "error",
                          error |-> "No valid locations found in the job list."]
               /\ UNCHANGED <<raised, markers_parts, valid_jobs, url_built>>
          ELSE /\ valid_jobs' = f.kept
               /\ markers_parts' = parts
               /\ url_built' = TRUE
               /\ ret' = [map_url |-> _build_map_url(f.kept, GOOGLE_MAPS_API_KEY),
                          total |-> Len(f.kept),
                          jobs |-> structured_jobs(f.kept)]
               /\ UNCHANGED raised
    /\ UNCHANGED <<GOOGLE_MAPS_API_KEY, index, location, jobs, by_coordinates,
                   by_location, skipped>>

\* def render_jobs_map_by_coordinates(jobs)
render_jobs_map_by_coordinates ==
    /\ pc = "tool"
    /\ pc' = "done"
    /\ called' = "render_jobs_map_by_coordinates"
    /\ LET st == PlaceAll(LoopStart, jobs, 1)
       IN IF KeyMissing(GOOGLE_MAPS_API_KEY)
          THEN /\ ret' = ConfigError
               /\ UNCHANGED <<raised, markers_parts, valid_jobs, by_coordinates,
                              by_location, skipped, url_built>>
          ELSE IF jobs = <<>>
          THEN /\ ret' = NoJobsError
               /\ UNCHANGED <<raised, markers_parts, valid_jobs, by_coordinates,
                              by_location, skipped, url_built>>
          ELSE /\ markers_parts' = st.markers_parts
               /\ valid_jobs' = st.valid_jobs
               /\ by_coordinates' = st.by_coordinates
               /\ by_location' = st.by_location
               /\ skipped' = st.skipped
               /\ raised' = st.raised
               /\ IF st.raised # ""
                  THEN UNCHANGED <<ret, url_built>>
                  ELSE IF st.valid_jobs = <<>>
                  THEN /\ ret' = [status |-> "error", skipped |-> st.skipped,
                                  error |-> "No jobs could be placed on the map."]
                       /\ UNCHANGED url_built
                  ELSE /\ url_built' = TRUE
                       /\ ret' = [map_url |-> AssembleUrl(st.markers_parts,
                                                          GOOGLE_MAPS_API_KEY),
                                  total |-> Len(st.valid_jobs),
                                  by_coordinates |-> st.by_coordinates,
                                  by_location |-> st.by_location,
                                  skipped |-> st.skipped,
                                  jobs |-> structured_jobs(st.valid_jobs)]
    /\ UNCHANGED <<GOOGLE_MAPS_API_KEY, index, location, jobs>>

Next ==
    \/ CallMarkerLabel
    \/ CallEncodeLocation
    \/ render_jobs_map
    \/ render_jobs_map_by_coordinates

Spec == Init /\ [][Next]_vars

-----------------------------------------------------------------------------
(* Reading a response back: the vocabulary of the properties *)

IsTool == called \in {"render_jobs_map", "render_jobs_map_by_coordinates"}

\* the access key is configured: the variable is set to a non-empty text
KeyConfigured ==
    GOOGLE_MAPS_API_KEY.kind = "str" /\ Len(GOOGLE_MAPS_API_KEY.s) > 0

\* the call returned the success envelope
Succeeded == IsTool /\ raised = "" /\ "map_url" \in DOMAIN ret

\* the call returned the error envelope
IsErrorEnvelope ==
    /\ raised = ""
    /\ "status" \in DOMAIN ret
    /\ ret.status = "error"
    /\ "error" \in DOMAIN ret
    /\ ~("map_url" \in DOMAIN ret)

\* t cut at every occurrence of the character sep
RECURSIVE Split(_, _)
Split(t, sep) ==
    IF \A k \in 1..Len(t) : t[k] # sep THEN <<t>>
    ELSE LET k == CHOOSE j \in 1..Len(t) :
                      t[j] = sep /\ \A h \in 1..(j - 1) : t[h] # sep
         IN <<SubSeq(t, 1, k - 1)>> \o Split(SubSeq(t, k + 1, Len(t)), sep)

StartsWith(t, p) == Len(t) >= Len(p) /\ SubSeq(t, 1, Len(p)) = p

IsMarkerParam(p) == StartsWith(p, MarkerPrefix)

\* the marker parameters of a URL, left to right
UrlMarkers(url) == SelectSeq(Split(url, 38), IsMarkerParam)

\* where the "%7C" closing the label of a marker parameter starts
PipeAt(p) ==
    CHOOSE k \in (Len(MarkerPrefix) + 1)..(Len(p) - 2) :
        /\ SubSeq(p, k, k + 2) = Pipe
        /\ \A h \in (Len(MarkerPrefix) + 1)..(k - 1) : SubSeq(p, h, h + 2) # Pipe

MarkerLabelOf(p) == SubSeq(p, Len(MarkerPrefix) + 1, PipeAt(p) - 1)

MarkerLocationOf(p) == SubSeq(p, PipeAt(p) + 3, Len(p))

UrlLabels(url) ==
    [k \in 1..Len(UrlMarkers(url)) |-> MarkerLabelOf(UrlMarkers(url)[k])]

LegendNumbers(legend) == [k \in 1..Len(legend) |-> legend[k].number]

\* t without its leading and trailing whitespace, as the slice between the
\* first and the last character that is not whitespace
Trimmed(t) ==
    IF \A k \in 1..Len(t) : t[k] \in Whitespace THEN <<>>
    ELSE LET a == CHOOSE i \in 1..Len(t) :
                      t[i] \notin Whitespace
                      /\ \A h \in 1..(i - 1) : t[h] \in Whitespace
             b == CHOOSE i \in 1..Len(t) :
                      t[i] \notin Whitespace
                      /\ \A h \in (i + 1)..Len(t) : t[h] \in Whitespace
         IN SubSeq(t, a, b)

\* character by character: space to "+", comma to "%2C", the rest kept
RECURSIVE Escaped(_)
Escaped(t) ==
    IF t = <<>> THEN <<>>
    ELSE (CASE Head(t) = 32 -> <<43>>
            [] Head(t) = 44 -> <<37, 50, 67>>
            [] OTHER -> <<Head(t)>>) \o Escaped(Tail(t))

\* the job has a location text that is not empty once trimmed
HasLocation(job) ==
    job.location.kind = "str" /\ Trimmed(job.location.s) # <<>>

\* the job has a numeric latitude and a numeric longitude
HasCoordinates(job) ==
    /\ job.latitude.kind \in {"int", "float", "bool"}
    /\ job.longitude.kind \in {"int", "float", "bool"}

\* the positions of the input jobs the location-only tool retains
Located == {i \in 1..Len(jobs) : HasLocation(jobs[i])}

\* the positions of the input jobs the coordinate-preferring tool places
Placeable == {i \in 1..Len(jobs) : HasCoordinates(jobs[i]) \/ HasLocation(jobs[i])}

\* the k-th smallest element of a set of positions
Nth(S, k) == CHOOSE i \in S : Cardinality({h \in S : h < i}) = k - 1

\* the location part a marker of the coordinate-preferring tool must carry
RawOrEncoded(job) ==
    IF HasCoordinates(job)
    THEN Format(job.latitude) \o <<44>> \o Format(job.longitude)
    ELSE Escaped(Trimmed(job.location.s))

\* single-character labels, ordered by character
LabelLess(a, b) == Len(a) = 1 /\ Len(b) = 1 /\ a[1] < b[1]

StrictlyIncreasing(labels) ==
    \A h, k \in 1..Len(labels) : h < k => LabelLess(labels[h], labels[k])

-----------------------------------------------------------------------------
(* Properties *)

\* C1: in every successful response of either tool, the labels of the markers
\* of map_url, left to right, are the 'number' values of the legend, entry by
\* entry, and the k-th marker shows the place of the k-th legend job.
C1_MarkersMatchLegend ==
    Succeeded =>
        /\ Len(UrlMarkers(ret.map_url)) = Len(ret.jobs)
        /\ UrlLabels(ret.map_url) = LegendNumbers(ret.jobs)
        /\ \A k \in 1..Len(ret.jobs) :
              /\ ret.jobs[k].location = Get(valid_jobs[k], "location", NA)
              /\ MarkerLocationOf(UrlMarkers(ret.map_url)[k])
                    = IF called = "render_jobs_map"
                      THEN Escaped(Trimmed(valid_jobs[k].location.s))
                      ELSE RawOrEncoded(valid_jobs[k])

\* C2: _marker_label(n) is the decimal digit of n for n in 1..9 and the
\* (n - 9)-th capital letter for n in 10..35: 10 gives "A", 35 gives "Z".
C2_LabelTable ==
    called = "_marker_label" =>
        /\ (index \in 1..9 => ret = <<48 + index>>)
        /\ (index \in 10..35 => ret = <<65 + (index - 10)>>)

\* C3: render_jobs_map, with the key configured and K >= 1 jobs having a
\* non-empty trimmed location, answers with the labels _marker_label(1) ..
\* _marker_label(K) on the markers of map_url and in the legend, and total = K.
C3_ContiguousLabels ==
    (called = "render_jobs_map" /\ KeyConfigured /\ Cardinality(Located) >= 1) =>
        /\ Succeeded
        /\ UrlLabels(ret.map_url) = [k \in 1..Cardinality(Located) |-> _marker_label(k)]
        /\ LegendNumbers(ret.jobs) = [k \in 1..Cardinality(Located) |-> _marker_label(k)]
        /\ \A k \in 1..Cardinality(Located) : valid_jobs[k] = jobs[Nth(Located, k)]
        /\ ret.total = Cardinality(Located)

\* C8: no exception escapes either tool, whatever fields of a job are absent,
\* null or of a non-text type; the call ends with an envelope.
C8_NeverRaises ==
    IsTool => (raised = "" /\ (Succeeded \/ IsErrorEnvelope))

\* C9: _encode_location returns the trimmed text with every space turned into
\* "+" and every comma into "%2C", every other character kept in place; the
\* result holds no space and no comma.
C9_EncodeLocation ==
    called = "_encode_location" =>
        /\ ret = Escaped(Trimmed(location))
        /\ \A k \in 1..Len(ret) : ret[k] # 32 /\ ret[k] # 44

\* C9 witness: a text with whitespace around it and a comma, a space and an
\* "&" inside has been encoded
C9_Witness ==
    /\ called = "_encode_location"
    /\ Len(location) >= 4
    /\ location[1] \in Whitespace
    /\ \E i, j, k \in 2..Len(location) :
          /\ i < j
          /\ location[i] # 32 /\ location[i] \notin Whitespace
          /\ location[j] # 32 /\ location[j] \notin Whitespace
          /\ \E h \in (i + 1)..(j - 1) : location[h] = 32
          /\ location[k] = 44
          /\ \E h \in 2..Len(location) : location[h] = 38

C5_CoordinatesPreferred ==
    (called = "render_jobs_map_by_coordinates" /\ KeyConfigured /\ jobs # <<>>) =>
        /\ raised = ""
        /\ by_coordinates = Cardinality({i \in 1..Len(jobs) : HasCoordinates(jobs[i])})
        /\ by_location = Cardinality({i \in 1..Len(jobs) :
                              ~HasCoordinates(jobs[i]) /\ HasLocation(jobs[i])})
        /\ Len(markers_parts) = Cardinality(Placeable)
        /\ \A k \in 1..Cardinality(Placeable) :
              /\ valid_jobs[k] = jobs[Nth(Placeable, k)]
              /\ MarkerLocationOf(markers_parts[k]) = RawOrEncoded(jobs[Nth(Placeable, k)])

\* C6: with the access key not configured both tools return the error
\* envelope of the configuration error, without map_url and without raising,
\* whatever the job list; the key is tested before the list.
C6_ConfigErrorFirst ==
    (IsTool /\ ~KeyConfigured) =>
        /\ raised = ""
        /\ IsErrorEnvelope
        /\ ret = ConfigError
        /\ ~url_built

\* C6 witness: a tool was called without a key on a list holding a job it
\* would have placed and a job whose location is not a text
C6_Witness ==
    /\ IsTool
    /\ ~KeyConfigured
    /\ Placeable # {}
    /\ \E i \in 1..Len(jobs) : jobs[i].location.kind \in {"null", "int"}

\* C7: with the key configured, an empty job list, or a list no job of which
\* survives the placement filter, gets the error envelope; no URL is assembled.
C7_EmptyIsError ==
    (/\ IsTool
     /\ KeyConfigured
     /\ \/ jobs = <<>>
        \/ called = "render_jobs_map" /\ Located = {}
        \/ called = "render_jobs_map_by_coordinates" /\ Placeable = {}) =>
        /\ IsErrorEnvelope
        /\ ~url_built

\* C10: in a successful call on at most 35 jobs the marker labels of map_url
\* are pairwise distinct and strictly increasing, so are the 'number' values of
\* the legend, and no marker has an empty location part.
C10_LabelsIncrease ==
    (Succeeded /\ Len(jobs) <= 35) =>
        LET markers == UrlMarkers(ret.map_url)
            labels == [k \in 1..Len(markers) |-> MarkerLabelOf(markers[k])]
            numbers == LegendNumbers(ret.jobs)
        IN /\ StrictlyIncreasing(labels)
           /\ \A h, k \in 1..Len(labels) : h # k => labels[h] # labels[k]
           /\ StrictlyIncreasing(numbers)
           /\ \A h, k \in 1..Len(numbers) : h # k => numbers[h] # numbers[k]
           /\ \A k \in 1..Len(markers) : MarkerLocationOf(markers[k]) # <<>>

\* C10 witness: the coordinate-preferring tool answered with ten markers or
\* more, letters included, after skipping a job
C10_Witness ==
    /\ called = "render_jobs_map_by_coordinates"
    /\ Succeeded
    /\ Len(UrlMarkers(ret.map_url)) >= 10
    /\ skipped >= 1

====
